---- MODULE Spec2Model ----
(***************************************************************************)
(* Backgammon core: the Rules value object with its SetRules builder       *)
(* (bg_rules.rs), the default Game and the dice roll (game.rs).            *)
(***************************************************************************)
EXTENDS Integers, Sequences, FiniteSets, TLC

VARIABLES rules, game, dice, last, chain

vars == <<rules, game, dice, last, chain>>

(* ---------------- bounds on the arguments drawn by the callers --------- *)

MaxPointsArg == 1
MaxLimitArg == 1

(* arguments used by test_set_rules *)
TestPoints == 5
TestLimit == 3

(* ---------------- bg_rules.rs ------------------------------------------ *)

BoolFields == {"beaver", "raccoon", "murphy", "jacoby", "crawford", "holland"}

Fields == BoolFields \cup {"points", "murphy_limit"}

RulesDefault_NoCrawford ==
    [points |-> 7, beaver |-> FALSE, raccoon |-> FALSE, murphy |-> FALSE,
     murphy_limit |-> 0, jacoby |-> FALSE, crawford |-> FALSE, holland |-> FALSE]

RulesDefault ==
    [points |-> 7, beaver |-> FALSE, raccoon |-> FALSE, murphy |-> FALSE,
     murphy_limit |-> 0, jacoby |-> FALSE, crawford |-> TRUE, holland |-> FALSE]

(* u32 and u8 arguments the callers pass *)
PointsArgs == (0..MaxPointsArg) \cup {TestPoints}

LimitArgs == (0..MaxLimitArg) \cup {TestLimit}

(* every Rules value over the bounded field ranges *)
Rules ==
    [points : PointsArgs \cup {RulesDefault.points},
     beaver : BOOLEAN, raccoon : BOOLEAN, murphy : BOOLEAN,
     murphy_limit : LimitArgs \cup {RulesDefault.murphy_limit},
     jacoby : BOOLEAN, crawford : BOOLEAN, holland : BOOLEAN]

with_points(r, points) == [r EXCEPT !.points = points]

with_beaver(r) == [r EXCEPT !.beaver = TRUE]

with_raccoon_needs_beaver(r) == [r EXCEPT !.raccoon = r.beaver]

with_raccoon(r) == [r EXCEPT !.raccoon = TRUE]

with_murphy_limit_only(r, limit) == [r EXCEPT !.murphy_limit = limit]

with_murphy(r, limit) == [r EXCEPT !.murphy = TRUE, !.murphy_limit = limit]

with_jacoby(r) == [r EXCEPT !.jacoby = TRUE]

with_crawford(r) == [r EXCEPT !.crawford = TRUE]

with_holland_forces_crawford(r) == [r EXCEPT !.holland = TRUE, !.crawford = TRUE]

with_holland_clears_crawford(r) == [r EXCEPT !.holland = TRUE, !.crawford = FALSE]

with_holland(r) == [r EXCEPT !.holland = TRUE]

(* the operations of the SetRules trait, in the order of its declaration *)
SetRules ==
    <<"with_points", "with_beaver", "with_raccoon", "with_murphy",
      "with_jacoby", "with_crawford", "with_holland">>

SetRulesOps == {SetRules[i] : i \in 1..Len(SetRules)}

(* a call of a SetRules operation with its argument (0 when it takes none) *)
Calls ==
    [op : {"with_points"}, arg : PointsArgs]
        \cup [op : {"with_murphy"}, arg : LimitArgs]
        \cup [op : SetRulesOps \ {"with_points", "with_murphy"}, arg : {0}]

Apply(c, r) ==
    CASE c.op = "with_points"   -> with_points(r, c.arg)
      [] c.op = "with_beaver"   -> with_beaver(r)
      [] c.op = "with_raccoon"  -> with_raccoon(r)
      [] c.op = "with_murphy"   -> with_murphy(r, c.arg)
      [] c.op = "with_jacoby"   -> with_jacoby(r)
      [] c.op = "with_crawford" -> with_crawford(r)
      [] c.op = "with_holland"  -> with_holland(r)

(* ---------------- game.rs ---------------------------------------------- *)

BoardLiteral ==
    <<2, 0, 0, 0, 0, -5, 0, -3, 0, 0, 0, 5, -5, 0, 0, 0, 3, 0, 5, 0, 0, 0, 0, -2, 0, 0, 0>>

BoardLiteral26 ==
    <<2, 0, 0, 0, 0, -5, 0, -3, 0, 0, 0, 5, -5, 0, 0, 0, 3, 0, 5, 0, 0, 0, 0, -2, 0, 0>>

BoardLiteralShifted ==
    <<0, 2, 0, 0, 0, 0, -5, 0, -3, 0, 0, 0, 5, -5, 0, 0, 0, 3, 0, 5, 0, 0, 0, 0, -2, 0, 0>>

BoardLiteralShort ==
    <<2, 0, 0, 0, 0, -5, 0, -3, 0, 0, 0, 5, -5, 0, 0, 0, 3, 0, 4, 0, 0, 0, 0, -2, 0, 0, 0>>

(* the array indexed from 0 as in the source *)
ArrayOf(lit) == [i \in 0..(Len(lit) - 1) |-> lit[i + 1]]

GameOf(lit, pts) ==
    [points |-> pts, cube |-> 0, cube_owner |-> "Nobody", one_plays |-> TRUE,
     board |-> ArrayOf(lit), crawford |-> FALSE, since_crawford |-> 0]

GameDefault_RulesPoints == GameOf(BoardLiteral, RulesDefault.points)

GameDefault_Board26 == GameOf(BoardLiteral26, 3)

GameDefault_Shifted == GameOf(BoardLiteralShifted, 3)

GameDefault_Short == GameOf(BoardLiteralShort, 3)

GameDefault == GameOf(BoardLiteral, 3)

Uniform_exclusive(low, high) == low..(high - 1)

Uniform_new_inclusive(low, high) == low..high

(* ---------------- state machine ---------------------------------------- *)

NoCall(r) == [op |-> "none", arg |-> 0, prev |-> r]

NoChain == [pos |-> 0, n |-> 0, l |-> 0]

(* position in the chain of test_set_rules: pos counts the leading calls   *)
(* made so far in the order of that test, -1 once the calls departed from  *)
(* it; n and l are the arguments it passed.                                *)
ChainStep(c) ==
    IF chain.pos >= 0 /\ chain.pos < Len(SetRules) /\ SetRules[chain.pos + 1] = c.op
    THEN [pos |-> chain.pos + 1,
          n |-> IF c.op = "with_points" THEN c.arg ELSE chain.n,
          l |-> IF c.op = "with_murphy" THEN c.arg ELSE chain.l]
    ELSE [pos |-> -1, n |-> 0, l |-> 0]

Init ==
    /\ rules = RulesDefault
    /\ game = GameDefault
    /\ dice = <<>>
    /\ last = NoCall(rules)
    /\ chain = NoChain

(* the builder applied to an arbitrary Rules value *)
InitAny ==
    /\ rules \in Rules
    /\ game = GameDefault
    /\ dice = <<>>
    /\ last = NoCall(rules)
    /\ chain = NoChain

WithPoints ==
    \E n \in PointsArgs :
        /\ rules' = with_points(rules, n)
        /\ last' = [op |-> "with_points", arg |-> n, prev |-> rules]
        /\ chain' = ChainStep([op |-> "with_points", arg |-> n])
        /\ UNCHANGED <<game, dice>>

WithBeaver ==
    /\ rules' = with_beaver(rules)
    /\ last' = [op |-> "with_beaver", arg |-> 0, prev |-> rules]
    /\ chain' = ChainStep([op |-> "with_beaver", arg |-> 0])
    /\ UNCHANGED <<game, dice>>

WithRaccoon ==
    /\ rules' = with_raccoon(rules)
    /\ last' = [op |-> "with_raccoon", arg |-> 0, prev |-> rules]
    /\ chain' = ChainStep([op |-> "with_raccoon", arg |-> 0])
    /\ UNCHANGED <<game, dice>>

WithMurphy ==
    \E l \in LimitArgs :
        /\ rules' = with_murphy(rules, l)
        /\ last' = [op |-> "with_murphy", arg |-> l, prev |-> rules]
        /\ chain' = ChainStep([op |-> "with_murphy", arg |-> l])
        /\ UNCHANGED <<game, dice>>

WithJacoby ==
    /\ rules' = with_jacoby(rules)
    /\ last' = [op |-> "with_jacoby", arg |-> 0, prev |-> rules]
    /\ chain' = ChainStep([op |-> "with_jacoby", arg |-> 0])
    /\ UNCHANGED <<game, dice>>

WithCrawford ==
    /\ rules' = with_crawford(rules)
    /\ last' = [op |-> "with_crawford", arg |-> 0, prev |-> rules]
    /\ chain' = ChainStep([op |-> "with_crawford", arg |-> 0])
    /\ UNCHANGED <<game, dice>>

WithHolland ==
    /\ rules' = with_holland(rules)
    /\ last' = [op |-> "with_holland", arg |-> 0, prev |-> rules]
    /\ chain' = ChainStep([op |-> "with_holland", arg |-> 0])
    /\ UNCHANGED <<game, dice>>

roll ==
    /\ \E d1 \in Uniform_new_inclusive(1, 6), d2 \in Uniform_new_inclusive(1, 6) :
           dice' = <<d1, d2>>
    /\ UNCHANGED <<rules, game, last, chain>>

Next ==
    \/ WithPoints
    \/ WithBeaver
    \/ WithRaccoon
    \/ WithMurphy
    \/ WithJacoby
    \/ WithCrawford
    \/ WithHolland
    \/ roll

Spec == Init /\ [][Next]_vars

SpecAny == InitAny /\ [][Next]_vars

(* ---------------- properties ------------------------------------------- *)

RECURSIVE SumOver(_, _)
SumOver(f, S) ==
    IF S = {} THEN 0
    ELSE LET i == CHOOSE j \in S : TRUE IN f[i] + SumOver(f, S \ {i})

(* C1: Rules::default() is points=7, beaver=false, raccoon=false,          *)
(* murphy=false, murphy_limit=0, jacoby=false, crawford=true,              *)
(* holland=false.                                                          *)
C1_DefaultRules ==
    last.op = "none" =>
        /\ rules.points = 7
        /\ rules.beaver = FALSE
        /\ rules.raccoon = FALSE
        /\ rules.murphy = FALSE
        /\ rules.murphy_limit = 0
        /\ rules.jacoby = FALSE
        /\ rules.crawford = TRUE
        /\ rules.holland = FALSE

C1_Witness == last.op = "none" /\ chain.pos = 0 /\ dice = <<>>

(* C2: each with_* operation, applied to any Rules value, sets its named   *)
(* field(s) (with_points the argument verbatim, with_murphy murphy=true    *)
(* and murphy_limit=the argument, the others their flag to true) and       *)
(* leaves every other field as it was.                                     *)
C2_OnlyNamedFields ==
    last.op # "none" =>
        LET named == CASE last.op = "with_points"   -> {"points"}
                       [] last.op = "with_beaver"   -> {"beaver"}
                       [] last.op = "with_raccoon"  -> {"raccoon"}
                       [] last.op = "with_murphy"   -> {"murphy", "murphy_limit"}
                       [] last.op = "with_jacoby"   -> {"jacoby"}
                       [] last.op = "with_crawford" -> {"crawford"}
                       [] last.op = "with_holland"  -> {"holland"}
        IN  /\ \A f \in Fields \ named : rules[f] = last.prev[f]
            /\ \A f \in named \cap BoolFields : rules[f] = TRUE
            /\ last.op = "with_points" => rules.points = last.arg
            /\ last.op = "with_murphy" => rules.murphy_limit = last.arg

C2_Witness ==
    /\ last.op = "with_holland"
    /\ last.prev.crawford = FALSE
    /\ last.prev.holland = FALSE
    /\ rules.holland = TRUE

(* C3 as stated: any two with_* calls, the same operation with different   *)
(* arguments included, give equal Rules values in either order.            *)
C3_AnyOrder ==
    last.op # "none" =>
        \A c2 \in Calls :
            Apply(c2, rules) = Apply([op |-> last.op, arg |-> last.arg], Apply(c2, last.prev))

(* C3 amended: two with_* calls give equal Rules values in either order,   *)
(* unless they are the same operation called with different arguments.     *)
C3_AnyOrderDistinct ==
    last.op # "none" =>
        \A c2 \in Calls :
            ~(c2.op = last.op /\ c2.arg # last.arg) =>
                Apply(c2, rules) = Apply([op |-> last.op, arg |-> last.arg], Apply(c2, last.prev))

C3_Witness ==
    /\ last.op = "with_raccoon"
    /\ last.prev.beaver = FALSE
    /\ last.prev.raccoon = FALSE
    /\ rules.raccoon = TRUE

(* C4: the seven operations chained from the default in the order          *)
(* with_points(n), with_beaver, with_raccoon, with_murphy(l), with_jacoby, *)
(* with_crawford, with_holland give points=n, murphy_limit=l and the six   *)
(* flags true.                                                             *)
C4_ChainOfSeven ==
    chain.pos = Len(SetRules) =>
        /\ rules.points = chain.n
        /\ rules.murphy_limit = chain.l
        /\ \A f \in BoolFields : rules[f] = TRUE

C4_Witness ==
    /\ chain.pos = 7
    /\ chain.n = 5
    /\ chain.l = 3
    /\ rules = [points |-> 5, beaver |-> TRUE, raccoon |-> TRUE, murphy |-> TRUE,
                murphy_limit |-> 3, jacoby |-> TRUE, crawford |-> TRUE, holland |-> TRUE]

(* C5: roll() is always possible, every ordered pair over 1..6 is a        *)
(* possible result, and both components of a result lie in 1..6.           *)
C5_RollRange ==
    /\ dice # <<>> => (Len(dice) = 2 /\ dice[1] \in 1..6 /\ dice[2] \in 1..6)
    /\ \A p \in (1..6) \X (1..6) : ENABLED (roll /\ dice' = p)

C5_Witness == dice = <<5, 2>>

C7_Slots26 == DOMAIN game.board = 0..25

(* C7 amended: the default board has exactly 27 slots, 0..23 the points    *)
(* and three further slots 24, 25, 26, all zero.                           *)
C7_Slots27 ==
    /\ DOMAIN game.board = 0..26
    /\ Cardinality(DOMAIN game.board) = 27
    /\ \A i \in 24..26 : game.board[i] = 0

C7_Witness == 26 \in DOMAIN game.board /\ game.board[23] = -2

(* C8: board[i] = -board[23 - i] for every point i in 0..23, and every     *)
(* slot beyond 23 is zero.                                                 *)
C8_Mirror ==
    /\ \A i \in 0..23 : game.board[i] = 0 - game.board[23 - i]
    /\ \A i \in DOMAIN game.board : i > 23 => game.board[i] = 0

C8_Witness == game.board[0] = 2 /\ game.board[23] = -2 /\ game.board[11] = 5

(* C9: the Game is points=3, cube=0, cube_owner=Nobody, one_plays=true,    *)
(* crawford=false, since_crawford=0, its points differ from the default    *)
(* Rules' points, and it stays so under every operation.                   *)
C9_GameFixed ==
    /\ game.points = 3
    /\ game.cube = 0
    /\ game.cube_owner = "Nobody"
    /\ game.one_plays = TRUE
    /\ game.crawford = FALSE
    /\ game.since_crawford = 0
    /\ game.points # RulesDefault.points

C9_Witness == last.op # "none" /\ dice # <<>> /\ game.points = 3

(* C10: from the default, under any sequence of with_* operations,         *)
(* crawford stays true, no flag goes from true to false, and holland       *)
(* implies crawford.                                                       *)
C10_CrawfordKept ==
    /\ rules.crawford = TRUE
    /\ rules.holland => rules.crawford
    /\ \A f \in BoolFields : last.prev[f] => rules[f]

C10_Witness == last.op = "with_holland" /\ rules.holland /\ rules.crawford

====
